---- MODULE Spec2Model ----
(***************************************************************************)
(* Model of the voice-assistant page (src/unnamed/part_000): the Page      *)
(* component's microphone-permission state, the single Room handle, the   *)
(* async handlers checkMicPermission, requestMicPermission and            *)
(* onConnectButtonClicked, and the affordances rendered by                *)
(* SimpleVoiceAssistant and ControlBar.                                   *)
(*                                                                         *)
(* Every `await` of a handler is a suspension point: a handler invocation *)
(* is a task whose pc names the promise it is waiting for.  React state   *)
(* setters are modelled as assignments.  The Room is the livekit-client   *)
(* handle: connect() moves it disconnected -> connecting, the join        *)
(* settles to connected or back to disconnected, connect() on a room that *)
(* is connecting returns the pending join, on a connected room it         *)
(* resolves at once.  agentState has no "error" value in the code.        *)
(***************************************************************************)
EXTENDS Naturals, Sequences, FiniteSets

\* ---------------------------------------------------------------- bounds
MaxClicks == 2
MaxDeviceErrors == 1

\* ------------------------------------------------------------ value sets
Undefined == "undefined"
Urls == {"wss://x"}
Tokens == {"t"}
Statuses == {200, 500}

PermissionStates == {"prompt", "granted", "denied"}

\* what the credential endpoint can answer: a status, a body that parses as
\* JSON or not, and the two fields the page reads from the parsed body; an
\* error answer carries no credentials
Responses ==
  [status : {200}, json : {TRUE},
   serverUrl : Urls \cup {Undefined},
   participantToken : Tokens \cup {Undefined}]
  \cup
  [status : Statuses, json : BOOLEAN,
   serverUrl : {Undefined}, participantToken : {Undefined}]

NoResponse ==
  [status |-> 0, json |-> FALSE, serverUrl |-> Undefined,
   participantToken |-> Undefined]

ResponseOk(r) == r.status \in {200}

WellFormed(url, token) == url # Undefined /\ token # Undefined

\* a Room that is not joined to anything: new Room(), and what a failed join
\* or a disconnect leaves behind
NoConnection ==
  [state |-> "disconnected", url |-> Undefined, token |-> Undefined]

VARIABLES
  micPermission,  \* useState<PermissionState>
  room,           \* the Room handle: its state and the arguments of its join
  micEnabled,     \* local audio-capture track published
  probe,          \* checkMicPermission started on mount: position / result
  tasks,          \* invocations of the two click handlers, in click order
  alerts          \* alert() calls made so far, by kind

vars == <<micPermission, room, micEnabled, probe, tasks, alerts>>

\* ------------------------------------------------------------------ pcs
InFlightPcs == {"getUserMedia", "fetch", "json", "join", "mic"}
ConnectPcs == {"fetch", "json", "join", "mic"}
\* the connect sequence of an invocation rejected, at whichever await
ConnectFailedPcs == {"rejected"}
FinalPcs == {"done", "denied"} \cup ConnectFailedPcs

Task(handler, pc) == [handler |-> handler, pc |-> pc, response |-> NoResponse]

\* --------------------------------------------------- presentation layer
agentState == room.state

ShowLanding == agentState = "disconnected"

ShowRequestButton_Always == ShowLanding

ShowRequestButton == ShowLanding /\ micPermission # "granted"

ShowStartButton_NoPermission == ShowLanding

ShowStartButton == ShowLanding /\ micPermission = "granted"

ShowControlBar_WhileConnecting == agentState # "disconnected"

ShowControlBar == agentState # "disconnected" /\ agentState # "connecting"

\* ------------------------------------------------------------------ init
Init ==
  /\ micPermission = "prompt"
  /\ room = NoConnection
  /\ micEnabled = FALSE
  /\ probe = "idle"
  /\ tasks = <<>>
  /\ alerts = [micDenied |-> 0, deviceFailure |-> 0]

\* ----------------------------------------------------- permission probe
Mount ==
  /\ probe = "idle"
  /\ probe' = "pending"
  /\ UNCHANGED <<micPermission, room, micEnabled, tasks, alerts>>

CheckMicPermissionOk ==
  /\ probe = "pending"
  /\ probe' = "granted"
  /\ micPermission' = "granted"
  /\ UNCHANGED <<room, micEnabled, tasks, alerts>>

CheckMicPermissionFail_Denied ==
  /\ probe = "pending"
  /\ probe' = "failed"
  /\ micPermission' = "denied"
  /\ alerts' = [alerts EXCEPT !.micDenied = @ + 1]
  /\ UNCHANGED <<room, micEnabled, tasks>>

CheckMicPermissionFail ==
  /\ probe = "pending"
  /\ probe' = "failed"
  /\ micPermission' = "prompt"
  /\ UNCHANGED <<room, micEnabled, tasks, alerts>>

\* ------------------------------------------------- how a handler fails
\* A rejection inside onConnectButtonClicked: the Start button's handler has
\* no catch (the rejection is unhandled and nothing else changes); inside
\* requestMicPermission it lands in that handler's catch block.
CaughtBy(handler) == handler = "request"

PermissionAfterReject(handler) ==
  IF CaughtBy(handler) THEN "denied" ELSE micPermission

AlertsAfterReject(n) == [alerts EXCEPT !.micDenied = @ + n]

ConnectReject(i) ==
  /\ tasks' = [tasks EXCEPT ![i] = Task(tasks[i].handler, "rejected")]
  /\ micPermission' = PermissionAfterReject(tasks[i].handler)
  /\ alerts' = AlertsAfterReject(IF CaughtBy(tasks[i].handler) THEN 1 ELSE 0)

\* ----------------------------------------------- requestMicPermission
ClickRequest ==
  /\ probe # "idle"
  /\ ShowRequestButton
  /\ Len(tasks) < MaxClicks
  /\ tasks' = Append(tasks, Task("request", "getUserMedia"))
  /\ UNCHANGED <<micPermission, room, micEnabled, probe, alerts>>

RequestMicPermissionOk_NoConnect(i) ==
  /\ tasks[i].pc = "getUserMedia"
  /\ micPermission' = "granted"
  /\ tasks' = [tasks EXCEPT ![i].pc = "done"]
  /\ UNCHANGED <<room, micEnabled, probe, alerts>>

RequestMicPermissionOk(i) ==
  /\ tasks[i].pc = "getUserMedia"
  /\ micPermission' = "granted"
  /\ tasks' = [tasks EXCEPT ![i].pc = "fetch"]
  /\ UNCHANGED <<room, micEnabled, probe, alerts>>

RequestMicPermissionFail_Retry(i) ==
  /\ tasks[i].pc = "getUserMedia"
  /\ Len(tasks) < MaxClicks
  /\ micPermission' = "denied"
  /\ alerts' = AlertsAfterReject(1)
  /\ tasks' = Append([tasks EXCEPT ![i].pc = "denied"],
                     Task("request", "getUserMedia"))
  /\ UNCHANGED <<room, micEnabled, probe>>

RequestMicPermissionFail(i) ==
  /\ tasks[i].pc = "getUserMedia"
  /\ micPermission' = "denied"
  /\ alerts' = AlertsAfterReject(1)
  /\ tasks' = [tasks EXCEPT ![i].pc = "denied"]
  /\ UNCHANGED <<room, micEnabled, probe>>

\* --------------------------------------------- onConnectButtonClicked
ClickStart ==
  /\ probe # "idle"
  /\ ShowStartButton
  /\ Len(tasks) < MaxClicks
  /\ tasks' = Append(tasks, Task("start", "fetch"))
  /\ UNCHANGED <<micPermission, room, micEnabled, probe, alerts>>

\* fetch() resolves for every HTTP status; the code then awaits json()
FetchOk(i) ==
  /\ tasks[i].pc = "fetch"
  /\ \E r \in Responses :
       tasks' = [tasks EXCEPT ![i].pc = "json", ![i].response = r]
  /\ UNCHANGED <<micPermission, room, micEnabled, probe, alerts>>

\* fetch() rejects only when the endpoint is unreachable
FetchFail(i) ==
  /\ tasks[i].pc = "fetch"
  /\ ConnectReject(i)
  /\ UNCHANGED <<room, micEnabled, probe>>

\* response.json() rejects on a body that is not JSON
JsonFail(i) ==
  /\ tasks[i].pc = "json"
  /\ ~tasks[i].response.json
  /\ ConnectReject(i)
  /\ UNCHANGED <<room, micEnabled, probe>>

RoomAfterConnectCall_Swapped(url, token) ==
  IF room.state = "disconnected"
  THEN [state |-> "connecting", url |-> token, token |-> url]
  ELSE room

\* room.connect(url, token) as called with the parsed body's two fields
RoomAfterConnectCall(url, token) ==
  IF room.state = "disconnected"
  THEN [state |-> "connecting", url |-> url, token |-> token]
  ELSE room

PcAfterConnectCall == IF room.state = "connected" THEN "mic" ELSE "join"

\* response.json() resolves; the status and the fields are not inspected and
\* room.connect is called with whatever the body held
JsonOk(i) ==
  /\ tasks[i].pc = "json"
  /\ tasks[i].response.json
  /\ room' = RoomAfterConnectCall(tasks[i].response.serverUrl,
                                  tasks[i].response.participantToken)
  /\ tasks' = [tasks EXCEPT ![i] = Task(tasks[i].handler, PcAfterConnectCall)]
  /\ UNCHANGED <<micPermission, micEnabled, probe, alerts>>

Joining == {i \in 1..Len(tasks) : tasks[i].pc = "join"}

\* the pending join settles: every invocation awaiting it resumes
JoinOk ==
  /\ room.state = "connecting"
  /\ WellFormed(room.url, room.token)
  /\ room' = [room EXCEPT !.state = "connected"]
  /\ tasks' = [i \in 1..Len(tasks) |->
                 IF i \in Joining THEN Task(tasks[i].handler, "mic")
                 ELSE tasks[i]]
  /\ UNCHANGED <<micPermission, micEnabled, probe, alerts>>

JoinFail ==
  /\ room.state = "connecting"
  /\ room' = NoConnection
  /\ tasks' = [i \in 1..Len(tasks) |->
                 IF i \in Joining THEN Task(tasks[i].handler, "rejected")
                 ELSE tasks[i]]
  /\ LET caught == {i \in Joining : CaughtBy(tasks[i].handler)}
     IN /\ micPermission' = IF caught # {} THEN "denied" ELSE micPermission
        /\ alerts' = AlertsAfterReject(Cardinality(caught))
  /\ UNCHANGED <<micEnabled, probe>>

\* room.localParticipant.setMicrophoneEnabled(true)
MicOk(i) ==
  /\ tasks[i].pc = "mic"
  /\ room.state = "connected"
  /\ micEnabled' = TRUE
  /\ tasks' = [tasks EXCEPT ![i].pc = "done"]
  /\ UNCHANGED <<micPermission, room, probe, alerts>>

MicFail(i) ==
  /\ tasks[i].pc = "mic"
  /\ ConnectReject(i)
  /\ UNCHANGED <<room, micEnabled, probe>>

\* ------------------------------------------------------- ControlBar
Disconnect_KeepsTrack ==
  /\ ShowControlBar
  /\ room' = NoConnection
  /\ UNCHANGED <<micPermission, micEnabled, probe, tasks, alerts>>

Disconnect ==
  /\ ShowControlBar
  /\ room' = NoConnection
  /\ micEnabled' = FALSE
  /\ UNCHANGED <<micPermission, probe, tasks, alerts>>

DeviceFailure_Disconnects ==
  /\ probe # "idle"
  /\ room.state = "connected"
  /\ alerts.deviceFailure < MaxDeviceErrors
  /\ alerts' = [alerts EXCEPT !.deviceFailure = @ + 1]
  /\ room' = NoConnection
  /\ micEnabled' = FALSE
  /\ UNCHANGED <<micPermission, probe, tasks>>

\* RoomEvent.MediaDevicesError delivered to onDeviceFailure
DeviceFailure ==
  /\ probe # "idle"
  /\ room.state = "connected"
  /\ alerts.deviceFailure < MaxDeviceErrors
  /\ alerts' = [alerts EXCEPT !.deviceFailure = @ + 1]
  /\ UNCHANGED <<micPermission, room, micEnabled, probe, tasks>>

\* ------------------------------------------------------------- next
Completion ==
  \/ CheckMicPermissionOk
  \/ CheckMicPermissionFail
  \/ \E i \in 1..Len(tasks) : RequestMicPermissionOk(i)
  \/ \E i \in 1..Len(tasks) : RequestMicPermissionFail(i)
  \/ \E i \in 1..Len(tasks) : FetchOk(i)
  \/ \E i \in 1..Len(tasks) : FetchFail(i)
  \/ \E i \in 1..Len(tasks) : JsonOk(i)
  \/ \E i \in 1..Len(tasks) : JsonFail(i)
  \/ JoinOk
  \/ JoinFail
  \/ \E i \in 1..Len(tasks) : MicOk(i)
  \/ \E i \in 1..Len(tasks) : MicFail(i)

Next ==
  \/ Mount
  \/ ClickRequest
  \/ ClickStart
  \/ Disconnect
  \/ DeviceFailure
  \/ Completion

Spec == Init /\ [][Next]_vars

\* every pending promise eventually settles; user clicks are never forced
FairSpec == Spec /\ WF_vars(Completion)

TypeOK ==
  /\ micPermission \in PermissionStates
  /\ room.state \in {"disconnected", "connecting", "connected"}
  /\ micEnabled \in BOOLEAN
  /\ probe \in {"idle", "pending", "granted", "failed"}
  /\ Len(tasks) <= MaxClicks
  /\ \A i \in 1..Len(tasks) :
       /\ tasks[i].handler \in {"request", "start"}
       /\ tasks[i].pc \in InFlightPcs \cup FinalPcs

\* ------------------------------------------------ step vocabulary
\* invocation i enters the connect sequence in this step (its fetch is issued)
ConnectStarts(i) ==
  /\ i <= Len(tasks')
  /\ tasks'[i].pc = "fetch"
  /\ (i > Len(tasks) \/ tasks[i].pc # "fetch")

\* invocation i calls room.connect in this step
JoinIssued(i) ==
  /\ i <= Len(tasks)
  /\ tasks[i].pc = "json"
  /\ tasks'[i].pc \in {"join", "mic"}

\* invocation i's connect sequence fails in this step, before the room is joined
ConnectFails(i) ==
  /\ i <= Len(tasks)
  /\ tasks[i].pc \in {"fetch", "json", "join"}
  /\ tasks'[i].pc = "rejected"

\* invocation i's explicit microphone request is refused in this step
RequestRefused(i) ==
  /\ i <= Len(tasks)
  /\ tasks[i].pc = "getUserMedia"
  /\ tasks'[i].pc = "denied"

InConnect == {i \in 1..Len(tasks) : tasks[i].pc \in ConnectPcs}

\* ------------------------------------------------------------ C1
\* C1: a connect sequence is started only with micPermission = granted: the
\* Start button starts it from a state where the permission is granted, and
\* requestMicPermission starts it right after setting the permission to
\* granted, so the permission is granted in the state where the fetch is out.
C1_ConnectOnlyWhenGranted ==
  [][\A i \in 1..MaxClicks :
       ConnectStarts(i) =>
         /\ micPermission' = "granted"
         /\ (tasks'[i].handler = "start" => micPermission = "granted")]_vars

C1_Witness ==
  \E i, j \in 1..Len(tasks) :
    /\ tasks[i].handler = "request" /\ tasks[i].pc = "fetch"
    /\ tasks[j].handler = "start" /\ tasks[j].pc = "fetch"
    /\ micPermission = "granted"

\* ------------------------------------------------------------ C2
\* C2: a failure of the connect sequence (credential fetch, body parsing or
\* room join) leaves micPermission as it was, whichever handler started it.
C2_ConnectFailureKeepsPermission ==
  [][\A i \in 1..MaxClicks :
       ConnectFails(i) => micPermission' = micPermission]_vars

\* ------------------------------------------------------------ C3
\* C3: when the endpoint is unreachable or answers non-2xx, or the join
\* fails, the connect ends with the connection state at error, and no room
\* join is issued after a non-2xx response.
C3_FailureEndsInError ==
  [][\A i \in 1..MaxClicks :
       /\ ConnectFails(i) => agentState' = "error"
       /\ (/\ i <= Len(tasks)
           /\ tasks[i].pc = "json"
           /\ ~ResponseOk(tasks[i].response)
           /\ tasks'[i].pc # "json")
          => (~JoinIssued(i) /\ agentState' = "error")]_vars

\* ------------------------------------------------------------ C4
\* C4: a response whose body lacks participantToken or serverUrl makes the
\* connect fail as a credential error before any room join is issued, and
\* the connection state ends at error.
C4_MalformedCredentialsRejected ==
  [][\A i \in 1..MaxClicks :
       (/\ i <= Len(tasks)
        /\ tasks[i].pc = "json"
        /\ tasks[i].response.json
        /\ ~WellFormed(tasks[i].response.serverUrl,
                       tasks[i].response.participantToken)
        /\ tasks'[i].pc # "json")
       => /\ ~JoinIssued(i)
          /\ tasks'[i].pc = "rejected"
          /\ agentState' = "error"]_vars

\* ------------------------------------------------------------ C5
\* C5: the connection state changes only along disconnected -> connecting
\* -> connected, disconnected/connecting -> error, connected -> disconnected
\* and error -> (a new connect).
SpecEdges ==
  { <<"disconnected", "connecting">>, <<"connecting", "connected">>,
    <<"disconnected", "error">>, <<"connecting", "error">>,
    <<"connected", "disconnected">>,
    <<"error", "disconnected">>, <<"error", "connecting">> }

C5_OnlySpecEdges ==
  [][agentState' # agentState => <<agentState, agentState'>> \in SpecEdges]_vars

\* ------------------------------------------------------------ C6
\* C6: at most one connect sequence is in flight in every reachable state.
C6_OneConnectInFlight == Cardinality(InConnect) <= 1

\* ------------------------------------------------------------ C7
\* C7: room.connect is called only while the room is disconnected, never
\* while it is already connecting or connected.
C7_JoinOnlyWhenDisconnected ==
  [][\A i \in 1..MaxClicks :
       JoinIssued(i) => room.state = "disconnected"]_vars

\* ------------------------------------------------------------ C8
\* C8: when the explicit microphone request is refused, micPermission becomes
\* denied, one alert is raised, no connect sequence is started, the room is
\* not touched, no new microphone request is made, and the refused
\* invocation never resumes.
C8_RefusedRequestStops ==
  [][\A i \in 1..MaxClicks :
       /\ RequestRefused(i) =>
            /\ micPermission' = "denied"
            /\ alerts'.micDenied = alerts.micDenied + 1
            /\ room' = room
            /\ Len(tasks') = Len(tasks)
            /\ \A j \in 1..Len(tasks) :
                 tasks'[j].pc \in {"getUserMedia"} \cup ConnectPcs
                   => tasks'[j].pc = tasks[j].pc
       /\ (i <= Len(tasks) /\ tasks[i].pc = "denied")
            => tasks'[i].pc = "denied"]_vars

C8_Witness ==
  \E i \in 1..Len(tasks) :
    /\ tasks[i].pc = "denied"
    /\ micPermission = "denied"
    /\ alerts.micDenied = 1
    /\ InConnect = {}

\* ------------------------------------------------------------ C9
\* C9: a failed probe sets micPermission to prompt (never denied), raises no
\* alert, starts no handler and leaves the room alone; a successful probe
\* sets granted and likewise starts nothing.
C9_ProbeNeverAnError ==
  [][/\ (probe = "pending" /\ probe' = "failed")
          => /\ micPermission' = "prompt"
             /\ alerts' = alerts
             /\ tasks' = tasks
             /\ room' = room
     /\ (probe = "pending" /\ probe' = "granted")
          => /\ micPermission' = "granted"
             /\ alerts' = alerts
             /\ tasks' = tasks
             /\ room' = room]_vars

C9_Witness ==
  /\ probe = "failed"
  /\ micPermission = "prompt"
  /\ alerts.micDenied = 0
  /\ tasks = <<>>
  /\ agentState = "disconnected"

\* ------------------------------------------------------------ C10
\* C10: after a failed probe, an explicit request that is granted sets
\* micPermission to granted and, unless the credential fetch or the join
\* fails, the room becomes connected without any further click.
C10_GrantedRequestConnects ==
  /\ [][\A i \in 1..MaxClicks :
          (/\ i <= Len(tasks)
           /\ tasks[i].pc = "getUserMedia"
           /\ tasks'[i].pc \notin {"getUserMedia", "denied"})
          => micPermission' = "granted"]_vars
  /\ \A i \in 1..MaxClicks :
       (/\ probe = "failed"
        /\ i <= Len(tasks)
        /\ tasks[i].handler = "request"
        /\ tasks[i].pc = "getUserMedia")
       ~> (/\ i <= Len(tasks)
           /\ \/ tasks[i].pc \in {"denied", "rejected"}
              \/ agentState = "connected")

C10_Witness ==
  \E i \in 1..Len(tasks) :
    /\ probe = "failed"
    /\ tasks[i].handler = "request"
    /\ tasks[i].pc \in {"mic", "done"}
    /\ micPermission = "granted"
    /\ agentState = "connected"
    /\ \A j \in 1..Len(tasks) : j # i => tasks[j].pc = "denied"

\* ------------------------------------------------------------ C12
\* C12: every failure of the explicit permission request, of the credential
\* fetch or of the room join raises an alert or shows an error state,
\* whichever control started the action.
C12_NoSilentFailure ==
  [][\A i \in 1..MaxClicks :
       (ConnectFails(i) \/ RequestRefused(i))
         => (alerts' # alerts \/ agentState' = "error")]_vars

\* ------------------------------------------------------------ C13
\* C13: on the landing view (agentState = disconnected) exactly one of the two
\* start buttons is offered, chosen by micPermission alone: Request iff the
\* permission is not granted, Start otherwise; a click on Request starts
\* requestMicPermission, a click on Start starts onConnectButtonClicked.
C13_OneStartAffordance ==
  /\ [](ShowLanding =>
          /\ ShowRequestButton <=> micPermission # "granted"
          /\ ShowStartButton <=> micPermission = "granted"
          /\ ShowRequestButton <=> ~ShowStartButton)
  /\ [][Len(tasks') > Len(tasks) =>
          /\ ShowLanding
          /\ Len(tasks') = Len(tasks) + 1
          /\ tasks'[Len(tasks')] =
               IF micPermission # "granted"
               THEN Task("request", "getUserMedia")
               ELSE Task("start", "fetch")]_vars

C13_Witness ==
  /\ ShowLanding
  /\ ShowStartButton
  /\ ~ShowRequestButton
  /\ \E i, j \in 1..Len(tasks) :
       /\ tasks[i] = Task("request", "denied")
       /\ tasks[j] = Task("start", "fetch")

\* ------------------------------------------------------------ C14
\* C14: whatever micPermission is, while connecting no button is offered
\* (Request, Start, leave), while connected the leave control is offered and
\* neither start button is, and the leave control is never offered while
\* disconnected; so a room that is connecting is never left by a click.
C14_ControlsFollowConnection ==
  /\ [](/\ agentState = "connecting" =>
             ~ShowRequestButton /\ ~ShowStartButton /\ ~ShowControlBar
        /\ agentState = "connected" =>
             ShowControlBar /\ ~ShowRequestButton /\ ~ShowStartButton
        /\ agentState = "disconnected" => ~ShowControlBar)
  /\ [][(agentState = "connecting" /\ agentState' = "disconnected")
          => tasks' # tasks]_vars

C14_Witness ==
  /\ agentState = "connecting"
  /\ micPermission = "denied"
  /\ ~ShowRequestButton
  /\ ~ShowControlBar

\* ------------------------------------------------------------ C15
\* C15: no automatic retry: each invocation issues its credential request
\* once and a rejected invocation never resumes; when a connect sequence
\* fails nothing is left that could issue a credential request or a join or
\* change the connection state without a new user action; and while nothing
\* is pending such steps come from user actions only.
MayStillConnect ==
  {i \in 1..Len(tasks) : tasks[i].pc \in {"getUserMedia", "fetch", "json", "join"}}

C15_NoAutomaticRetry ==
  [][/\ \A i \in 1..MaxClicks :
          /\ ConnectStarts(i) =>
               (i > Len(tasks) \/ tasks[i].pc = "getUserMedia")
          /\ (i <= Len(tasks) /\ tasks[i].pc = "rejected")
               => tasks'[i] = tasks[i]
          /\ ConnectFails(i) =>
               \A j \in 1..Len(tasks) :
                 tasks'[j].pc \notin {"getUserMedia", "fetch", "json", "join"}
     /\ (MayStillConnect = {} /\ agentState' # agentState)
          => (ShowControlBar /\ agentState' = "disconnected")]_vars

\* ------------------------------------------------------------ C16
\* C16: a device-error notification raises one alert and changes neither the
\* room nor micPermission (nor any handler or the audio track); a connected
\* room leaves connected only through the leave control.
C16_DeviceFailureOnlyAlerts ==
  [][/\ alerts'.deviceFailure # alerts.deviceFailure =>
          /\ alerts'.deviceFailure = alerts.deviceFailure + 1
          /\ alerts'.micDenied = alerts.micDenied
          /\ room' = room
          /\ micPermission' = micPermission
          /\ micEnabled' = micEnabled
          /\ tasks' = tasks
     /\ (agentState = "connected" /\ agentState' # "connected") =>
          alerts' = alerts]_vars

C16_Witness ==
  /\ alerts.deviceFailure = 1
  /\ agentState = "connected"
  /\ micEnabled

\* ------------------------------------------------------------ C17
\* C17: when the user leaves a connected room the connection state becomes
\* disconnected, the audio-capture track is released and no alert is raised;
\* micPermission and the handlers are not touched.
C17_LeaveReleases ==
  [][(agentState = "connected" /\ agentState' # "connected") =>
       /\ agentState' = "disconnected"
       /\ room' = NoConnection
       /\ ~micEnabled'
       /\ alerts' = alerts
       /\ micPermission' = micPermission
       /\ tasks' = tasks]_vars

C17_Witness ==
  /\ agentState = "disconnected"
  /\ ~micEnabled
  /\ alerts = [micDenied |-> 0, deviceFailure |-> 0]
  /\ \E i \in 1..Len(tasks) : tasks[i].pc = "done"

\* ------------------------------------------------------------ C18
\* C18: within one invocation the awaits are passed in order (fetch, json,
\* room.connect, setMicrophoneEnabled) and a rejection ends it; room.connect
\* is called with the serverUrl and participantToken of that invocation's own
\* parsed response; the microphone is enabled only on a connected room by an
\* invocation whose join has resolved.
PcSteps ==
  { <<"getUserMedia", "fetch">>, <<"getUserMedia", "denied">>,
    <<"fetch", "json">>, <<"fetch", "rejected">>,
    <<"json", "join">>, <<"json", "mic">>, <<"json", "rejected">>,
    <<"join", "mic">>, <<"join", "rejected">>,
    <<"mic", "done">>, <<"mic", "rejected">> }

C18_StepsInOrder ==
  [][/\ \A i \in 1..Len(tasks) :
          /\ tasks'[i].pc # tasks[i].pc =>
               <<tasks[i].pc, tasks'[i].pc>> \in PcSteps
          /\ JoinIssued(i) =>
               /\ tasks[i].response.json
               /\ room.state = "disconnected" =>
                    room' = [state |-> "connecting",
                             url |-> tasks[i].response.serverUrl,
                             token |-> tasks[i].response.participantToken]
          /\ (tasks'[i].pc = "mic" /\ tasks[i].pc # "mic") =>
               room'.state = "connected"
     /\ (micEnabled' /\ ~micEnabled) =>
          /\ room.state = "connected"
          /\ \E i \in 1..Len(tasks) :
               tasks[i].pc = "mic" /\ tasks'[i].pc = "done"]_vars

C18_Witness ==
  /\ room = [state |-> "connected", url |-> "wss://x", token |-> "t"]
  /\ micEnabled
  /\ \E i \in 1..Len(tasks) : tasks[i].pc = "done"

\* ------------------------------------------------------------ C19
\* C19: whenever the room is connecting or connected, micPermission is
\* granted.
C19_LiveImpliesGranted ==
  agentState \in {"connecting", "connected"} => micPermission = "granted"

====
